---- MODULE Spec2Model ----
(***************************************************************************)
(* The deal monitor of discord_bot.py: two triggers (initial_sync and the  *)
(* hourly scrape_loop) run scrape_and_process, which scrapes every         *)
(* configured (site, category), merges the listings by identity key,       *)
(* reconciles every merged listing against the deals collection            *)
(* (process_deal) and sends the resulting changes (notify_change).         *)
(*                                                                         *)
(* A Python dict is a TLA+ record, a list a sequence, None the empty       *)
(* sequence <<>> around an optional value.  Every await is a point where   *)
(* the other trigger's coroutine may run, so every action is the code      *)
(* between two awaits.                                                     *)
(***************************************************************************)
EXTENDS Integers, Sequences, FiniteSets, TLC

\* ------------------------------------------------------------------ bounds
\* longest list of promotions one scraper invocation returns, in the
\* specification of the aggregation and in the full specification
MaxDeals == 2
MaxBatch == 1
\* iterations of the hourly loop that are followed
MaxCycles == 1
\* load-more attempts of one scraper invocation that are followed, and the
\* most new products one attempt brings
MaxAttempts == 5
MaxYield == 2

\* ------------------------------------------------------------- the values
NA == "N/A"
\* a key that a JSON object does not carry (dict.get falls to its default)
Missing == "<missing>"

Tasks == {"initial_sync", "scrape_loop"}

DEFAULT_MARKETPLACE_ID == "A1RKKUPIHCS9HS"
DEFAULT_BASE_URL == "https://www.amazon.es/-/en/deals"

\* AmazonDealsScraper.CATEGORIES, cut to the labels the model uses; the
\* labels are listed in Python's string order, which sorted() follows
CATEGORIES == <<"Beauty", "Gaming & Accessories">>
LabelOrder == <<"All Categories", "Beauty", "Gaming & Accessories", "Unknown">>

\* Python truthiness of a string value
Truthy(v) == v /= "" /\ v /= Missing

\* the test of line 278 (and 262): a value that is there and is not the
\* "N/A" placeholder
Present(v) == Truthy(v) /\ v /= NA

\* sorted(set): the labels of S in Python's string order, each once
Sorted(S) == SelectSeq(LabelOrder, LAMBDA c : c \in S)

Range(s) == {s[i] : i \in 1..Len(s)}

\* ------------------------------------------------------- the configuration
SiteSpain ==
    [name |-> "Amazon Spain", base_url |-> DEFAULT_BASE_URL,
     marketplace_id |-> DEFAULT_MARKETPLACE_ID,
     categories |-> <<"Beauty", "Gaming & Accessories">>, scrape_all |-> FALSE]

SiteSpainGaming ==
    [name |-> "Amazon Spain", base_url |-> DEFAULT_BASE_URL,
     marketplace_id |-> DEFAULT_MARKETPLACE_ID,
     categories |-> <<"Gaming & Accessories">>, scrape_all |-> FALSE]

SiteEmpty ==
    [name |-> "Amazon Site", base_url |-> DEFAULT_BASE_URL,
     marketplace_id |-> DEFAULT_MARKETPLACE_ID,
     categories |-> <<>>, scrape_all |-> FALSE]

SiteUK ==
    [name |-> "Amazon: UK", base_url |-> "https://www.amazon.co.uk/deals",
     marketplace_id |-> "A1F83G8C2ARO7P",
     categories |-> <<"Beauty">>, scrape_all |-> FALSE]

\* configurations load_config can hand to the bot: the default shape (one
\* site, several categories) and a list of sites, one without categories
Configs == {<<SiteSpain>>, <<SiteEmpty, SiteUK>>}

\* the configurations of the aggregation specification: the second one has
\* the same items on sale on two sites
AggConfigs == {<<SiteSpain>>, <<SiteSpainGaming, SiteEmpty, SiteUK>>}

\* lines 215-219: the categories scraped for a site
SiteCategories(site) ==
    IF site.scrape_all THEN CATEGORIES ELSE site.categories

\* --------------------------------------------------------------- the state
VARIABLES
    config,           \* self.config["sites"]
    deals_channel,    \* self.deals_channel is set
    store,            \* the deals collection, in insertion order
    clock,            \* the last value datetime.now() returned
    iterations,       \* iterations of scrape_loop started
    pc,               \* where each trigger's coroutine stands
    site_idx,         \* scrape_and_process: index of the site being scraped
    idx,              \* scrape_and_process: index of the category being scraped
    pending,          \* scraper.deals not yet merged (the loop of line 260)
    collected,        \* scrape_and_process: collected, in insertion order
    observed,         \* history: what the merge loop has consumed this cycle
    cursor,           \* position of the loop over collected.values()
    existing,         \* process_deal: the result of find_one
    document,         \* process_deal: the document being written
    changed,          \* process_deal: the diff of the watched fields
    outcome,          \* what the last process_deal call returned or raised
    new_deal_counts,  \* scrape_and_process: new_deal_counts
    notifications,    \* scrape_and_process: notifications still to send
    sends,            \* history: the failed sends of the notification being sent
    failures,         \* history: the invocations and reconciliations that raised
    scrape_pc,        \* AmazonDealsScraper.scrape: where the call stands
    max_pages,        \* scrape: max_pages, 0 for None
    page_num,         \* scrape: page_num
    previous_count,   \* scrape: previous_count
    no_new_products_count,  \* scrape: no_new_products_count
    yields            \* history: the new products of each load-more attempt

vars == <<config, deals_channel, store, clock, iterations, pc, site_idx, idx,
          pending, collected, observed, cursor, existing, document, changed,
          outcome, new_deal_counts, notifications, sends, failures, scrape_pc,
          max_pages, page_num, previous_count, no_new_products_count, yields>>

\* what all triggers share, and what is local to one call of
\* scrape_and_process
shared == <<config, deals_channel, store, clock, iterations>>
locals == <<site_idx, idx, pending, collected, observed, cursor, existing,
            document, changed, outcome, new_deal_counts, notifications, sends>>

\* the locals of one call of AmazonDealsScraper.scrape
scraping == <<scrape_pc, max_pages, page_num, previous_count,
              no_new_products_count, yields>>

\* ------------------------------------------------------------- the scraper
\* what the source can serve for one item: product.asin, the title's
\* displayString and priceToPay's amount, each possibly missing
Promo(asin, title, amount) == [asin |-> asin, title |-> title, amount |-> amount]

\* the inputs of the aggregation specification
AggPromos ==
    { Promo(Missing, "Lamp", "8.00"),
      Promo("B01", "", ""),
      Promo("B01", "Lamp", Missing),
      Promo("B01", Missing, "8.00"),
      Promo("B01", "Lamp", "10.00"),
      Promo("B02", "Desk", "8.00") }

\* the inputs of the full specification
Promos ==
    { Promo("B01", "Lamp", Missing),
      Promo("B01", "Lamp", "8.00"),
      Promo("B01", "Lamp", "10.00") }

\* the sequences over S of length at most n
SeqUpTo(S, n) == UNION {[1..k -> S] : k \in 0..n}

\* main.py 51-61: the host the product links use
DomainHost(base_url) ==
    IF base_url = "https://www.amazon.co.uk/deals" THEN "www.amazon.co.uk"
    ELSE "www.amazon.es"

\* AmazonDealsScraper.__init__
Scraper(category, marketplace_id, base_url, site_name) ==
    [category |-> category,
     marketplace_id |-> IF Truthy(marketplace_id) THEN marketplace_id
                        ELSE DEFAULT_MARKETPLACE_ID,
     base_url |-> IF Truthy(base_url) THEN base_url ELSE DEFAULT_BASE_URL,
     site_name |-> IF Truthy(site_name) THEN site_name
                   ELSE DomainHost(IF Truthy(base_url) THEN base_url
                                   ELSE DEFAULT_BASE_URL)]

\* dict.get(key, "N/A")
GetOrNA(v) == IF v = Missing THEN NA ELSE v

\* f"€{amount}" if amount else "N/A"
FormatPrice(amount) == IF Truthy(amount) THEN "€" \o amount ELSE NA

\* AmazonDealsScraper.parse_promotion; original_price, discount, deal_badge,
\* image_url, brand_id and product_url are further fields of the same kind
\* as title and are left out
parse_promotion(self, promo) ==
    [title |-> GetOrNA(promo.title),
     asin |-> GetOrNA(promo.asin),
     current_price |-> FormatPrice(promo.amount),
     category |-> IF Truthy(self.category) THEN self.category
                  ELSE "All Categories",
     marketplace_id |-> self.marketplace_id,
     site |-> self.site_name,
     base_url |-> self.base_url]

\* the keys of a deal as parse_promotion returns it
DealFields == {"title", "asin", "current_price", "category",
               "marketplace_id", "site", "base_url"}

\* --------------------------------------------------------- the aggregation
\* line 265: the key of collected
Key(marketplace_id, site_name, asin) ==
    marketplace_id \o ":" \o site_name \o ":" \o asin

\* collected.get(key): the position of key in coll, 0 when it is not there
Lookup(coll, key) ==
    IF \E i \in 1..Len(coll) : coll[i].key = key
    THEN CHOOSE i \in 1..Len(coll) : coll[i].key = key
    ELSE 0

\* MergeField without the test of line 278: the latest value always wins
MergeFieldLatest(old, value) == value

\* MergeField keeping the first value that is there instead of the latest
MergeFieldFirst(old, value) == IF Present(old) THEN old ELSE value

\* lines 275-279: the value a field of the stored listing takes
MergeField(old, value) == IF Present(value) THEN value ELSE old

\* MergeInto replacing the categories by the latest one instead of adding it
MergeIntoLatestCategory(stored, deal, category_name) ==
    [f \in DealFields |-> MergeField(stored[f], deal[f])]
    @@ [categories |-> <<category_name>>]

\* lines 270-279: a further observation of a listing already collected
MergeInto(stored, deal, category_name) ==
    [f \in DealFields |-> MergeField(stored[f], deal[f])]
    @@ [categories |-> Sorted(Range(stored.categories) \cup {category_name})]

\* lines 281-285: the first observation of a listing
FirstCopy(deal, category_name, marketplace_id, site_name, base_url) ==
    [deal EXCEPT !.marketplace_id = marketplace_id,
                 !.site = site_name,
                 !.base_url = base_url]
    @@ [categories |-> <<category_name>>]

\* MergeDeal without the test of lines 261-263
MergeDealKeepAll(coll, deal, site) ==
    LET key == Key(site.marketplace_id, site.name, deal.asin)
        i == Lookup(coll, key)
    IN  IF i > 0
        THEN [coll EXCEPT ![i].deal = MergeInto(coll[i].deal, deal, deal.category)]
        ELSE Append(coll, [key |-> key,
                           deal |-> FirstCopy(deal, deal.category,
                                              site.marketplace_id, site.name,
                                              site.base_url)])

\* lines 260-286, one iteration: collected after the deal is merged
MergeDeal(coll, deal, site) ==
    LET asin == deal.asin
        key == Key(site.marketplace_id, site.name, asin)
        i == Lookup(coll, key)
        category_name == deal.category
    IN  IF ~Truthy(asin) \/ asin = NA THEN coll
        ELSE IF i > 0
        THEN [coll EXCEPT ![i].deal = MergeInto(coll[i].deal, deal, category_name)]
        ELSE Append(coll, [key |-> key,
                           deal |-> FirstCopy(deal, category_name,
                                              site.marketplace_id, site.name,
                                              site.base_url)])

\* ------------------------------------------------------------- the store
\* lines 334-338: whether a stored document matches process_deal's query
Matches(doc, deal) ==
    /\ doc.asin = deal.asin
    /\ Truthy(deal.marketplace_id) => doc.marketplace_id = deal.marketplace_id
    /\ Truthy(deal.site) => doc.site = deal.site

\* find_one with a query on the item identifier alone
find_oneByAsin(docs, deal) ==
    IF \E i \in 1..Len(docs) : docs[i].asin = deal.asin
    THEN <<docs[CHOOSE k \in 1..Len(docs) :
                    /\ docs[k].asin = deal.asin
                    /\ \A j \in 1..(k - 1) : docs[j].asin /= deal.asin]>>
    ELSE <<>>

\* self.deals.find_one(query): the first matching document, None without one
find_one(docs, deal) ==
    IF \E i \in 1..Len(docs) : Matches(docs[i], deal)
    THEN LET i == CHOOSE k \in 1..Len(docs) :
                     /\ Matches(docs[k], deal)
                     /\ \A j \in 1..(k - 1) : ~Matches(docs[j], deal)
         IN  <<docs[i]>>
    ELSE <<>>

\* lines 343-351: the categories of the document to write
DocumentCategories(found, deal) ==
    (IF found /= <<>> THEN Range(found[1].categories) ELSE {})
        \cup (IF Truthy(deal.category) THEN {deal.category} ELSE {})
        \cup Range(deal.categories)

\* Document with line 356 moved out of its test: first_seen is always set
DocumentFirstSeenAlways(found, deal, now) ==
    [deal EXCEPT !.categories = Sorted(DocumentCategories(found, deal))]
    @@ [last_seen |-> now, first_seen |-> now]

\* line 353 (and 356 for a new deal): the document to write
Document(found, deal, now) ==
    LET base == [deal EXCEPT !.categories = Sorted(DocumentCategories(found, deal))]
                @@ [last_seen |-> now]
    IN  IF found = <<>> THEN base @@ [first_seen |-> now] ELSE base

\* line 363
fields_to_watch == <<"current_price">>

\* Changed skipping a new value that is absent, as the merge of line 278 does
ChangedIfPresent(found, deal) ==
    LET differs(i) == /\ found[1][fields_to_watch[i]] /= deal[fields_to_watch[i]]
                      /\ Present(deal[fields_to_watch[i]])
        diff(i) == [field |-> fields_to_watch[i],
                    old_value |-> found[1][fields_to_watch[i]],
                    new_value |-> deal[fields_to_watch[i]]]
        picked == SelectSeq([i \in 1..Len(fields_to_watch) |-> i], differs)
    IN  [k \in 1..Len(picked) |-> diff(picked[k])]

\* lines 364-370: the watched fields whose stored and new values differ
Changed(found, deal) ==
    LET differs(i) == found[1][fields_to_watch[i]] /= deal[fields_to_watch[i]]
        diff(i) == [field |-> fields_to_watch[i],
                    old_value |-> found[1][fields_to_watch[i]],
                    new_value |-> deal[fields_to_watch[i]]]
        picked == SelectSeq([i \in 1..Len(fields_to_watch) |-> i], differs)
    IN  [k \in 1..Len(picked) |-> diff(picked[k])]

\* insert_one(document): the collection after the insert
insert_one(docs, doc) == Append(docs, doc @@ [id |-> Len(docs) + 1])

\* update_one with the filter {"asin": ...} in place of {"_id": id}: every
\* document of the item is written
update_oneByAsin(docs, id, doc) ==
    [i \in 1..Len(docs) |-> IF docs[i].asin = doc.asin THEN doc @@ docs[i]
                            ELSE docs[i]]

\* update_one({"_id": id}, {"$set": doc}): the collection after the update
update_one(docs, id, doc) ==
    [i \in 1..Len(docs) |-> IF docs[i].id = id THEN doc @@ docs[i] ELSE docs[i]]

\* DealChange("New deal", {})
NewDeal == [change_type |-> "New deal", changed_fields |-> <<>>]

\* DealChange("Updated deal", changed)
UpdatedDeal(diff) == [change_type |-> "Updated deal", changed_fields |-> diff]

\* ----------------------------------------------------------- the triggers
\* no process_deal call has just returned
NoOutcome ==
    [kind |-> "none", deal |-> <<>>, is_new |-> FALSE, change |-> <<>>,
     read |-> <<>>, prior |-> <<>>, written |-> <<>>]

\* a document an earlier run of the bot left in the collection: B01 seen
\* once, under Beauty on the default site, and inserted at time 0
Earlier ==
    LET scraper == Scraper("Beauty", SiteSpain.marketplace_id,
                           SiteSpain.base_url, SiteSpain.name)
        deal == parse_promotion(scraper, Promo("B01", "Lamp", "10.00"))
        coll == MergeDeal(<<>>, deal, SiteSpain)
    IN  insert_one(<<>>, Document(<<>>, coll[1].deal, 0))

\* the collection when the process starts: empty, or as an earlier run left it
Stores == {<<>>, Earlier}

\* DealMonitorBot.__init__ (lines 139-149): no trigger has started yet
Constructed(configs, stores) ==
    /\ config \in configs
    /\ deals_channel = FALSE
    /\ store \in stores
    /\ clock = 0
    /\ iterations = 0
    /\ pc = [t \in Tasks |-> "wait_ready"]
    /\ site_idx = [t \in Tasks |-> 0]
    /\ idx = [t \in Tasks |-> 0]
    /\ pending = [t \in Tasks |-> <<>>]
    /\ collected = [t \in Tasks |-> <<>>]
    /\ observed = [t \in Tasks |-> <<>>]
    /\ cursor = [t \in Tasks |-> 0]
    /\ existing = [t \in Tasks |-> <<>>]
    /\ document = [t \in Tasks |-> <<>>]
    /\ changed = [t \in Tasks |-> <<>>]
    /\ outcome = [t \in Tasks |-> NoOutcome]
    /\ new_deal_counts = [t \in Tasks |-> <<>>]
    /\ notifications = [t \in Tasks |-> <<>>]
    /\ sends = [t \in Tasks |-> <<>>]
    /\ failures = {}

\* the bot as constructed, the scraper's loop being left to ScrapeReturns
Start(configs, stores) ==
    /\ Constructed(configs, stores)
    /\ scrape_pc = "none"
    /\ max_pages = 0
    /\ page_num = 0
    /\ previous_count = 0
    /\ no_new_products_count = 0
    /\ yields = <<>>

Init == Start(Configs, Stores)

\* the locals of scrape_and_process and process_deal go with the call
DropLocals(t) ==
    /\ site_idx' = [site_idx EXCEPT ![t] = 0]
    /\ idx' = [idx EXCEPT ![t] = 0]
    /\ pending' = [pending EXCEPT ![t] = <<>>]
    /\ collected' = [collected EXCEPT ![t] = <<>>]
    /\ observed' = [observed EXCEPT ![t] = <<>>]
    /\ cursor' = [cursor EXCEPT ![t] = 0]
    /\ existing' = [existing EXCEPT ![t] = <<>>]
    /\ document' = [document EXCEPT ![t] = <<>>]
    /\ changed' = [changed EXCEPT ![t] = <<>>]
    /\ outcome' = [outcome EXCEPT ![t] = NoOutcome]
    /\ new_deal_counts' = [new_deal_counts EXCEPT ![t] = <<>>]
    /\ notifications' = [notifications EXCEPT ![t] = <<>>]
    /\ sends' = [sends EXCEPT ![t] = <<>>]

\* ensure_channel returns: the channel was already resolved (line 174) or
\* is resolved now to a text-compatible channel (line 193); initial_sync
\* goes on to scrape_and_process, scrape_loop to its first iteration
EnsureChannelOk(t) ==
    /\ pc[t] = "wait_ready"
    /\ deals_channel' = TRUE
    /\ pc' = [pc EXCEPT ![t] = IF t = "scrape_loop" THEN "idle" ELSE "cycle"]
    /\ UNCHANGED <<config, store, clock, iterations, locals>>
    /\ UNCHANGED <<failures, scraping>>

\* EnsureChannelFails with the exception swallowed: the trigger goes on as
\* if the channel had been resolved
EnsureChannelFailsGoesOn(t) ==
    /\ pc[t] = "wait_ready"
    /\ ~deals_channel
    /\ pc' = [pc EXCEPT ![t] = IF t = "scrape_loop" THEN "idle" ELSE "cycle"]
    /\ UNCHANGED <<shared, locals>>
    /\ UNCHANGED <<failures, scraping>>

\* ensure_channel raises (lines 182, 187, 195): the trigger's task ends
EnsureChannelFails(t) ==
    /\ pc[t] = "wait_ready"
    /\ ~deals_channel
    /\ pc' = [pc EXCEPT ![t] = "dead"]
    /\ UNCHANGED <<shared, locals>>
    /\ UNCHANGED <<failures, scraping>>

\* tasks.loop(hours=1): an iteration of scrape_loop starts, the first one
\* as soon as before_scrape_loop has returned
Iterate(t, n) ==
    /\ t = "scrape_loop"
    /\ pc[t] = "idle"
    /\ iterations < n
    /\ iterations' = iterations + 1
    /\ pc' = [pc EXCEPT ![t] = "cycle"]
    /\ UNCHANGED <<config, deals_channel, store, clock, locals>>
    /\ UNCHANGED <<failures, scraping>>

\* the iterations that are followed
NextIteration(t) == Iterate(t, MaxCycles)

\* scrape_and_process returns (lines 205, 294, 323 or the end of the loop of
\* line 327)
Return(t) ==
    /\ pc[t] = "return"
    /\ pc' = [pc EXCEPT ![t] = "idle"]
    /\ DropLocals(t)
    /\ UNCHANGED shared
    /\ UNCHANGED <<failures, scraping>>

\* ------------------------------------------------ scrape_and_process: scrape
\* lines 221-223: the first site from s on that has categories
RECURSIVE SkipEmpty(_, _)
SkipEmpty(sites, s) ==
    IF s > Len(sites) THEN s
    ELSE IF SiteCategories(sites[s]) = <<>> THEN SkipEmpty(sites, s + 1)
    ELSE s

\* the loops of lines 209 and 233: the position after category i of site s
After(sites, s, i) ==
    IF i < Len(SiteCategories(sites[s]))
    THEN [site_idx |-> s, idx |-> i + 1, pc |-> "scrape"]
    ELSE LET n == SkipEmpty(sites, s + 1)
         IN  IF n > Len(sites)
             THEN [site_idx |-> n, idx |-> 0, pc |-> "scraped"]
             ELSE [site_idx |-> n, idx |-> 1, pc |-> "scrape"]

\* lines 199-233: the cycle starts and reaches its first scraper invocation
BeginCycle(t) ==
    /\ pc[t] = "cycle"
    /\ LET n == SkipEmpty(config, 1)
       IN  IF config = <<>>
           THEN /\ pc' = [pc EXCEPT ![t] = "return"]
                /\ UNCHANGED <<site_idx, idx>>
           ELSE /\ pc' = [pc EXCEPT ![t] =
                              IF n > Len(config) THEN "scraped" ELSE "scrape"]
                /\ site_idx' = [site_idx EXCEPT ![t] = n]
                /\ idx' = [idx EXCEPT ![t] = IF n > Len(config) THEN 0 ELSE 1]
    /\ UNCHANGED <<shared, pending, collected, observed, cursor, existing,
                   document, changed, outcome, new_deal_counts, notifications>>
    /\ UNCHANGED <<sends, failures, scraping>>

\* lines 234-241: scraper.scrape() returns, scraper.deals holding the parsed
\* promotions the source served
ScrapeReturns(t, promos) ==
    /\ pc[t] = "scrape"
    /\ LET site == config[site_idx[t]]
           scraper == Scraper(SiteCategories(site)[idx[t]], site.marketplace_id,
                              site.base_url, site.name)
       IN  pending' = [pending EXCEPT ![t] =
                          [i \in 1..Len(promos) |-> parse_promotion(scraper, promos[i])]]
    /\ pc' = [pc EXCEPT ![t] = "merge"]
    /\ UNCHANGED <<shared, site_idx, idx, collected, observed, cursor,
                   existing, document, changed, outcome, new_deal_counts,
                   notifications>>
    /\ UNCHANGED <<sends, failures, scraping>>

\* the loops of lines 209 and 233 move on to the next category
NextCategory(t) ==
    LET a == After(config, site_idx[t], idx[t])
    IN  /\ pc' = [pc EXCEPT ![t] = a.pc]
        /\ site_idx' = [site_idx EXCEPT ![t] = a.site_idx]
        /\ idx' = [idx EXCEPT ![t] = a.idx]

\* lines 242-249: scraper.scrape() raises; the loop continues with the next
\* category
ScrapeFails(t) ==
    /\ pc[t] = "scrape"
    /\ NextCategory(t)
    /\ UNCHANGED <<shared, pending, collected, observed, cursor, existing,
                   document, changed, outcome, new_deal_counts, notifications>>
    /\ UNCHANGED <<sends, failures, scraping>>

\* what one observation adds to the history of the cycle: the deal and the
\* site it was scraped for
Observation(deal, site) ==
    [marketplace_id |-> site.marketplace_id, site |-> site.name,
     base_url |-> site.base_url, deal |-> deal]

\* lines 260-286: one iteration of the loop over scraper.deals
Merge(t) ==
    /\ pc[t] = "merge"
    /\ pending[t] /= <<>>
    /\ collected' = [collected EXCEPT ![t] =
                        MergeDeal(@, Head(pending[t]), config[site_idx[t]])]
    /\ pending' = [pending EXCEPT ![t] = Tail(@)]
    /\ UNCHANGED <<shared, pc, site_idx, idx, observed, cursor, existing,
                   document, changed, outcome, new_deal_counts, notifications>>
    /\ UNCHANGED <<sends, failures, scraping>>

\* the same iteration, the history of the cycle's observations being kept
MergeObserved(t) ==
    /\ pc[t] = "merge"
    /\ pending[t] /= <<>>
    /\ collected' = [collected EXCEPT ![t] =
                        MergeDeal(@, Head(pending[t]), config[site_idx[t]])]
    /\ observed' = [observed EXCEPT ![t] =
           Append(@, Observation(Head(pending[t]), config[site_idx[t]]))]
    /\ pending' = [pending EXCEPT ![t] = Tail(@)]
    /\ UNCHANGED <<shared, pc, site_idx, idx, cursor, existing, document,
                   changed, outcome, new_deal_counts, notifications>>
    /\ UNCHANGED <<sends, failures, scraping>>

\* line 288: the pacing delay after a scrape that returned, then the next
\* category
Sleep(t) ==
    /\ pc[t] = "merge"
    /\ pending[t] = <<>>
    /\ NextCategory(t)
    /\ UNCHANGED <<shared, pending, collected, observed, cursor, existing,
                   document, changed, outcome, new_deal_counts, notifications>>
    /\ UNCHANGED <<sends, failures, scraping>>

\* --------------------------------------------- scrape_and_process: reconcile
\* lines 290-301: scraping is over; the loop over collected.values() starts
BeginReconcile(t) ==
    /\ pc[t] = "scraped"
    /\ IF collected[t] = <<>>
       THEN /\ pc' = [pc EXCEPT ![t] = "return"]
            /\ UNCHANGED cursor
       ELSE /\ pc' = [pc EXCEPT ![t] = "find"]
            /\ cursor' = [cursor EXCEPT ![t] = 1]
    /\ observed' = [observed EXCEPT ![t] = <<>>]
    /\ UNCHANGED <<shared, site_idx, idx, pending, collected, existing,
                   document, changed, outcome, new_deal_counts, notifications>>
    /\ UNCHANGED <<sends, failures, scraping>>

\* lines 301-325, after one process_deal call: the next listing, or the end
\* of the loop and the choice between returning and notifying
AfterDeal(t, queue) ==
    IF cursor[t] < Len(collected[t]) THEN "find"
    ELSE IF queue = <<>> THEN "return" ELSE "notify"

\* lines 308-310: new_deal_counts[site_name] += 1
Counted(counts, site_name) ==
    IF \E i \in 1..Len(counts) : counts[i].site = site_name
    THEN [i \in 1..Len(counts) |->
             IF counts[i].site = site_name
             THEN [counts[i] EXCEPT !.count = @ + 1] ELSE counts[i]]
    ELSE Append(counts, [site |-> site_name, count |-> 1])

\* process_deal, lines 330-357 and 363-375: find_one returns; the document
\* and the diff are built and the write is issued
Find(t) ==
    /\ pc[t] = "find"
    /\ LET deal == collected[t][cursor[t]].deal
           found == find_one(store, deal)
           now == clock + 1
       IN  /\ existing' = [existing EXCEPT ![t] = found]
           /\ document' = [document EXCEPT ![t] = <<Document(found, deal, now)>>]
           /\ changed' = [changed EXCEPT ![t] =
                             IF found = <<>> THEN <<>> ELSE Changed(found, deal)]
    /\ clock' = clock + 1
    /\ pc' = [pc EXCEPT ![t] = "write"]
    /\ outcome' = [outcome EXCEPT ![t] = NoOutcome]
    /\ UNCHANGED <<config, deals_channel, store, iterations, site_idx, idx,
                   pending, collected, observed, cursor, new_deal_counts,
                   notifications>>
    /\ UNCHANGED <<sends, failures, scraping>>

\* Raised without the try of lines 302-306: the exception leaves
\* scrape_and_process
RaisedEscapes(t) ==
    /\ pc' = [pc EXCEPT ![t] = "dead"]
    /\ DropLocals(t)
    /\ UNCHANGED shared

\* Raised with the handler of lines 304-306 falling through to lines
\* 308-313 with a "New deal" change instead of continuing
RaisedQueued(t) ==
    /\ outcome' = [outcome EXCEPT ![t] =
           [NoOutcome EXCEPT !.kind = "raised",
                             !.deal = <<collected[t][cursor[t]].deal>>]]
    /\ notifications' = [notifications EXCEPT ![t] =
           Append(@, [deal |-> collected[t][cursor[t]].deal, change |-> NewDeal])]
    /\ new_deal_counts' = [new_deal_counts EXCEPT ![t] =
           Counted(@, collected[t][cursor[t]].deal.site)]
    /\ pc' = [pc EXCEPT ![t] = AfterDeal(t, notifications'[t])]
    /\ cursor' = [cursor EXCEPT ![t] = @ + 1]
    /\ existing' = [existing EXCEPT ![t] = <<>>]
    /\ document' = [document EXCEPT ![t] = <<>>]
    /\ changed' = [changed EXCEPT ![t] = <<>>]
    /\ UNCHANGED <<shared, site_idx, idx, pending, collected, observed>>
    /\ UNCHANGED sends

\* what scrape_and_process does when process_deal raises (lines 304-306)
Raised(t) ==
    /\ outcome' = [outcome EXCEPT ![t] =
           [NoOutcome EXCEPT !.kind = "raised",
                             !.deal = <<collected[t][cursor[t]].deal>>]]
    /\ pc' = [pc EXCEPT ![t] = AfterDeal(t, notifications[t])]
    /\ cursor' = [cursor EXCEPT ![t] = @ + 1]
    /\ existing' = [existing EXCEPT ![t] = <<>>]
    /\ document' = [document EXCEPT ![t] = <<>>]
    /\ changed' = [changed EXCEPT ![t] = <<>>]
    /\ UNCHANGED <<shared, site_idx, idx, pending, collected, observed,
                   new_deal_counts, notifications>>
    /\ UNCHANGED sends

\* find_one raises
FindFails(t) ==
    /\ pc[t] = "find"
    /\ Raised(t)
    /\ UNCHANGED <<failures, scraping>>

\* insert_one or update_one raises, the collection being as it was
WriteFails(t) ==
    /\ pc[t] = "write"
    /\ Raised(t)
    /\ UNCHANGED <<failures, scraping>>

\* lines 357-361 and 308-313: insert_one returns; process_deal returns
\* (DealChange("New deal", {}), True)
Insert(t) ==
    /\ pc[t] = "write"
    /\ existing[t] = <<>>
    /\ LET deal == collected[t][cursor[t]].deal
           queue == Append(notifications[t], [deal |-> deal, change |-> NewDeal])
       IN  /\ store' = insert_one(store, document[t][1])
           /\ outcome' = [outcome EXCEPT ![t] =
                  [kind |-> "returned", deal |-> <<deal>>, is_new |-> TRUE,
                   change |-> <<NewDeal>>, read |-> <<>>, prior |-> <<>>,
                   written |-> <<store'[Len(store')]>>]]
           /\ new_deal_counts' = [new_deal_counts EXCEPT ![t] = Counted(@, deal.site)]
           /\ notifications' = [notifications EXCEPT ![t] = queue]
           /\ pc' = [pc EXCEPT ![t] = AfterDeal(t, queue)]
    /\ cursor' = [cursor EXCEPT ![t] = @ + 1]
    /\ existing' = [existing EXCEPT ![t] = <<>>]
    /\ document' = [document EXCEPT ![t] = <<>>]
    /\ changed' = [changed EXCEPT ![t] = <<>>]
    /\ UNCHANGED <<config, deals_channel, clock, iterations, site_idx, idx,
                   pending, collected, observed>>
    /\ UNCHANGED <<sends, failures, scraping>>

\* lines 372-380 and 308-313: update_one returns; process_deal returns
\* (DealChange("Updated deal", changed), False) or (None, False)
Update(t) ==
    /\ pc[t] = "write"
    /\ existing[t] /= <<>>
    /\ LET deal == collected[t][cursor[t]].deal
           id == existing[t][1].id
           change == IF changed[t] /= <<>> THEN <<UpdatedDeal(changed[t])>>
                     ELSE <<>>
           queue == IF change /= <<>>
                    THEN Append(notifications[t],
                                [deal |-> deal, change |-> change[1]])
                    ELSE notifications[t]
       IN  /\ store' = update_one(store, id, document[t][1])
           /\ outcome' = [outcome EXCEPT ![t] =
                  [kind |-> "returned", deal |-> <<deal>>, is_new |-> FALSE,
                   change |-> change, read |-> existing[t],
                   prior |-> <<store[id]>>, written |-> <<store'[id]>>]]
           /\ notifications' = [notifications EXCEPT ![t] = queue]
           /\ pc' = [pc EXCEPT ![t] = AfterDeal(t, queue)]
    /\ cursor' = [cursor EXCEPT ![t] = @ + 1]
    /\ existing' = [existing EXCEPT ![t] = <<>>]
    /\ document' = [document EXCEPT ![t] = <<>>]
    /\ changed' = [changed EXCEPT ![t] = <<>>]
    /\ UNCHANGED <<config, deals_channel, clock, iterations, site_idx, idx,
                   pending, collected, observed, new_deal_counts>>
    /\ UNCHANGED <<sends, failures, scraping>>

\* ------------------------------------------------ scrape_and_process: notify
\* lines 327-328 and 447: the next notification, or the end of the cycle
AfterNotify(t) ==
    /\ notifications' = [notifications EXCEPT ![t] = Tail(@)]
    /\ pc' = [pc EXCEPT ![t] = IF Len(notifications[t]) > 1 THEN "notify"
                                ELSE "return"]
    /\ outcome' = [outcome EXCEPT ![t] = NoOutcome]
    /\ sends' = [sends EXCEPT ![t] = <<>>]

\* notify_change, line 438 (or lines 383-385 without a channel): the send
\* goes through
NotifySent(t) ==
    /\ pc[t] = "notify"
    /\ AfterNotify(t)
    /\ UNCHANGED <<shared, site_idx, idx, pending, collected, observed,
                   cursor, existing, document, changed, new_deal_counts>>
    /\ UNCHANGED <<failures, scraping>>

\* lines 439-441: the send fails with status 429; asyncio.sleep(5) starts
NotifyRateLimited(t) ==
    /\ pc[t] = "notify"
    /\ deals_channel
    /\ pc' = [pc EXCEPT ![t] = "backoff"]
    /\ outcome' = [outcome EXCEPT ![t] = NoOutcome]
    /\ sends' = [sends EXCEPT ![t] = <<"rate_limited">>]
    /\ UNCHANGED <<shared, site_idx, idx, pending, collected, observed,
                   cursor, existing, document, changed, new_deal_counts,
                   notifications>>
    /\ UNCHANGED <<failures, scraping>>

\* line 442: asyncio.sleep(5) returns; the second send is issued
RetryDelay(t) ==
    /\ pc[t] = "backoff"
    /\ pc' = [pc EXCEPT ![t] = "retry"]
    /\ UNCHANGED <<shared, locals, failures, scraping>>

\* an exception leaves notify_change and with it scrape_and_process: the
\* trigger's task ends
Escapes(t) ==
    /\ pc' = [pc EXCEPT ![t] = "dead"]
    /\ DropLocals(t)
    /\ UNCHANGED shared
    /\ UNCHANGED <<failures, scraping>>

\* lines 444-445: the send fails otherwise
NotifyFails(t) ==
    /\ pc[t] = "notify"
    /\ deals_channel
    /\ Escapes(t)

\* line 443: the second send goes through
RetrySent(t) ==
    /\ pc[t] = "retry"
    /\ AfterNotify(t)
    /\ UNCHANGED <<shared, site_idx, idx, pending, collected, observed,
                   cursor, existing, document, changed, new_deal_counts>>
    /\ UNCHANGED <<failures, scraping>>

\* RetryFails with the handler of lines 439-442 around the second send too:
\* a further delay and a further send
RetryFailsRetries(t) ==
    /\ pc[t] = "retry"
    /\ pc' = [pc EXCEPT ![t] = "backoff"]
    /\ UNCHANGED <<shared, locals, failures, scraping>>

\* line 443: the second send fails, with whatever status
RetryFails(t) ==
    /\ pc[t] = "retry"
    /\ Escapes(t)

\* ------------------------------------------------- the failures, recorded
\* an invocation of the scraper, or a reconciliation, that raised: for which
\* site, for which category or item, and in which iteration of the loop
Failure(kind, marketplace_id, site_name, item) ==
    [kind |-> kind, marketplace_id |-> marketplace_id, site |-> site_name,
     item |-> item, iteration |-> iterations]

\* ScrapeFails, the failure being recorded
ScrapeFailsObserved(t) ==
    /\ pc[t] = "scrape"
    /\ NextCategory(t)
    /\ LET site == config[site_idx[t]]
       IN  failures' = failures \cup
               {Failure("scrape", site.marketplace_id, site.name,
                        SiteCategories(site)[idx[t]])}
    /\ UNCHANGED <<shared, pending, collected, observed, cursor, existing,
                   document, changed, outcome, new_deal_counts, notifications>>
    /\ UNCHANGED <<sends, scraping>>

\* what a raising process_deal call adds to the failures
Skipped(t) ==
    LET deal == collected[t][cursor[t]].deal
    IN  failures' = failures \cup
            {Failure("reconcile", deal.marketplace_id, deal.site, deal.asin)}

\* FindFails and WriteFails, the failure being recorded
FindFailsObserved(t) ==
    /\ pc[t] = "find"
    /\ Raised(t)
    /\ Skipped(t)
    /\ UNCHANGED scraping

WriteFailsObserved(t) ==
    /\ pc[t] = "write"
    /\ Raised(t)
    /\ Skipped(t)
    /\ UNCHANGED scraping

\* ------------------------------------------- AmazonDealsScraper.scrape
\* main.py line 205
max_no_new_attempts == 3

\* the values of max_pages: None (0), as both callers leave it, and a limit
PageLimits == {0, 2}

\* NoNewCount with the reset of line 252 moved out of its else: the counter
\* is cleared after every attempt
NoNewCountAlwaysReset(count, new_products) == 0

\* NoNewCount without the reset of line 252
NoNewCountNoReset(count, new_products) ==
    IF new_products = 0 THEN count + 1 ELSE count

\* main.py lines 243-252: no_new_products_count after an attempt that
\* brought new_products new products
NoNewCount(count, new_products) ==
    IF new_products = 0 THEN count + 1 ELSE 0

\* main.py lines 174-205: the page is loaded and the loop is entered, the
\* responses intercepted so far having brought some deals
EnterLoop(limits) ==
    /\ scrape_pc = "loop"
    /\ max_pages \in limits
    /\ page_num = 1
    /\ previous_count \in 0..MaxYield
    /\ no_new_products_count = 0
    /\ yields = <<>>

\* main.py lines 207-257, one iteration: a click or a scroll, the wait, and
\* the count of the deals the responses brought meanwhile
LoadMore(n) ==
    /\ scrape_pc = "loop"
    /\ Len(yields) < MaxAttempts
    /\ LET current_count == previous_count + n
           new_products == current_count - previous_count
           count == NoNewCount(no_new_products_count, new_products)
           stops == new_products = 0 /\ count >= max_no_new_attempts
       IN  /\ no_new_products_count' = count
           /\ yields' = Append(yields, new_products)
           /\ IF stops
              THEN /\ scrape_pc' = "returned"
                   /\ UNCHANGED <<previous_count, page_num>>
              ELSE /\ previous_count' = current_count
                   /\ page_num' = page_num + 1
                   /\ scrape_pc' = IF max_pages /= 0 /\ page_num + 1 > max_pages
                                   THEN "returned" ELSE "loop"
    /\ UNCHANGED <<shared, pc, locals, failures, max_pages>>

\* main.py lines 234-237: page.evaluate or the wait raises, and scrape with it
LoadMoreFails ==
    /\ scrape_pc = "loop"
    /\ scrape_pc' = "raised"
    /\ UNCHANGED <<shared, pc, locals, failures, max_pages, page_num,
                   previous_count, no_new_products_count, yields>>

\* ------------------------------------------------------ the specifications
\* the bot: both triggers, every phase of the cycle
Next ==
    \E t \in Tasks :
        \/ EnsureChannelOk(t)
        \/ EnsureChannelFails(t)
        \/ NextIteration(t)
        \/ Return(t)
        \/ BeginCycle(t)
        \/ \E promos \in SeqUpTo(Promos, MaxBatch) : ScrapeReturns(t, promos)
        \/ ScrapeFails(t)
        \/ Merge(t)
        \/ Sleep(t)
        \/ BeginReconcile(t)
        \/ Find(t)
        \/ FindFails(t)
        \/ WriteFails(t)
        \/ Insert(t)
        \/ Update(t)
        \/ NotifySent(t)
        \/ NotifyRateLimited(t)
        \/ NotifyFails(t)
        \/ RetryDelay(t)
        \/ RetrySent(t)
        \/ RetryFails(t)

Spec == Init /\ [][Next]_vars

\* the aggregation of one cycle, taken alone: the startup trigger scrapes
\* and merges, over a wider range of listings, and its observations are kept
InitAgg == Start(AggConfigs, {<<>>})

NextAgg ==
    \/ EnsureChannelOk("initial_sync")
    \/ BeginCycle("initial_sync")
    \/ \E promos \in SeqUpTo(AggPromos, MaxDeals) :
           ScrapeReturns("initial_sync", promos)
    \/ ScrapeFails("initial_sync")
    \/ MergeObserved("initial_sync")
    \/ Sleep("initial_sync")

SpecAgg == InitAgg /\ [][NextAgg]_vars

\* the inputs of the specification of one cycle: two items, and two
\* promotions without an item identifier (no key, and an empty string)
CyclePromos ==
    { Promo("B01", "Lamp", "8.00"),
      Promo("B02", "Desk", "8.00"),
      Promo(Missing, "Lamp", "8.00"),
      Promo("", "Desk", "8.00") }

\* one cycle of the startup trigger, taken alone, over a wider range of
\* listings, its observations and failures being recorded
InitCycle == Start({<<SiteSpain>>}, Stores)

NextCycle ==
    \/ EnsureChannelOk("initial_sync")
    \/ EnsureChannelFails("initial_sync")
    \/ BeginCycle("initial_sync")
    \/ \E promos \in SeqUpTo(CyclePromos, MaxDeals) :
           ScrapeReturns("initial_sync", promos)
    \/ ScrapeFailsObserved("initial_sync")
    \/ MergeObserved("initial_sync")
    \/ Sleep("initial_sync")
    \/ BeginReconcile("initial_sync")
    \/ Find("initial_sync")
    \/ FindFailsObserved("initial_sync")
    \/ WriteFailsObserved("initial_sync")
    \/ Insert("initial_sync")
    \/ Update("initial_sync")
    \/ NotifySent("initial_sync")
    \/ NotifyRateLimited("initial_sync")
    \/ NotifyFails("initial_sync")
    \/ RetryDelay("initial_sync")
    \/ RetrySent("initial_sync")
    \/ RetryFails("initial_sync")
    \/ Return("initial_sync")

SpecCycle == InitCycle /\ [][NextCycle]_vars

\* the inputs of the specification of the hourly loop: two items
LoopPromos ==
    { Promo("B01", "Lamp", "8.00"),
      Promo("B02", "Desk", "8.00") }

\* the hourly trigger, taken alone, over one iteration more than MaxCycles,
\* the reconciliations that raised being recorded
InitLoop == Start({<<SiteSpain>>}, {<<>>})

NextLoop ==
    \/ EnsureChannelOk("scrape_loop")
    \/ Iterate("scrape_loop", MaxCycles + 1)
    \/ BeginCycle("scrape_loop")
    \/ \E promos \in SeqUpTo(LoopPromos, MaxBatch) :
           ScrapeReturns("scrape_loop", promos)
    \/ ScrapeFails("scrape_loop")
    \/ Merge("scrape_loop")
    \/ Sleep("scrape_loop")
    \/ BeginReconcile("scrape_loop")
    \/ Find("scrape_loop")
    \/ FindFailsObserved("scrape_loop")
    \/ WriteFailsObserved("scrape_loop")
    \/ Insert("scrape_loop")
    \/ Update("scrape_loop")
    \/ NotifySent("scrape_loop")
    \/ NotifyFails("scrape_loop")
    \/ Return("scrape_loop")

SpecLoop == InitLoop /\ [][NextLoop]_vars

\* sites as normalize_config lets them through (lines 70-82 keep whatever
\* marketplace_id and name the file gives): the default site with its
\* marketplace_id left empty, which the scraper replaces by its default
\* (main.py line 48), and two sites whose names and marketplace ids hold
\* the separator of the key of line 265
SiteNoMarketplace ==
    [name |-> "Amazon Spain", base_url |-> DEFAULT_BASE_URL,
     marketplace_id |-> "", categories |-> <<"Beauty">>, scrape_all |-> FALSE]

SiteColonName ==
    [name |-> "ES:Deals", base_url |-> DEFAULT_BASE_URL,
     marketplace_id |-> "A1RKKUPIHCS9HS",
     categories |-> <<"Beauty">>, scrape_all |-> FALSE]

SiteColonMarketplace ==
    [name |-> "Deals", base_url |-> DEFAULT_BASE_URL,
     marketplace_id |-> "A1RKKUPIHCS9HS:ES",
     categories |-> <<"Gaming & Accessories">>, scrape_all |-> FALSE]

KeyConfigs ==
    {<<SiteSpain>>, <<SiteUK, SiteSpain>>, <<SiteNoMarketplace>>,
     <<SiteColonName, SiteColonMarketplace>>}

\* one cycle of the startup trigger over these sites, its observations kept
InitKeys == Start(KeyConfigs, Stores)

NextKeys ==
    \/ EnsureChannelOk("initial_sync")
    \/ BeginCycle("initial_sync")
    \/ \E promos \in SeqUpTo(Promos, MaxBatch) :
           ScrapeReturns("initial_sync", promos)
    \/ MergeObserved("initial_sync")
    \/ Sleep("initial_sync")
    \/ BeginReconcile("initial_sync")
    \/ Find("initial_sync")
    \/ Insert("initial_sync")
    \/ Update("initial_sync")
    \/ NotifySent("initial_sync")
    \/ Return("initial_sync")

SpecKeys == InitKeys /\ [][NextKeys]_vars

\* one scraper invocation, taken alone
InitScrape == Constructed({<<SiteSpain>>}, {<<>>}) /\ EnterLoop(PageLimits)

NextScrape ==
    \/ \E n \in 0..MaxYield : LoadMore(n)
    \/ LoadMoreFails

SpecScrape == InitScrape /\ [][NextScrape]_vars

\* a source that brings new products on finitely many attempts: it is
\* exhausted after the first MaxAttempts - max_no_new_attempts of them
SourceYields ==
    IF Len(yields) < MaxAttempts - max_no_new_attempts THEN 0..MaxYield ELSE {0}

\* one scraper invocation on such a source; the coroutine is resumed after
\* each of its waits (every wait of lines 207-241 carries a timeout), so
\* the next iteration of the loop is taken for as long as the loop is not
\* left; that a wait raises is possible and never forced
NextScrapeFinite ==
    \/ \E n \in SourceYields : LoadMore(n)
    \/ LoadMoreFails

SpecScrapeFinite ==
    /\ InitScrape
    /\ [][NextScrapeFinite]_vars
    /\ WF_vars(\E n \in SourceYields : LoadMore(n))

\* =================================================== the aggregation claims
\* the identity key of a listing, and of an observation of the history
Identity(deal) == <<deal.marketplace_id, deal.site, deal.asin>>
ObsIdentity(o) == <<o.marketplace_id, o.site, o.deal.asin>>

\* the observations of the history that carry an item identifier (line 262
\* discards the others)
Identified(obs) == SelectSeq(obs, LAMBDA o : Present(o.deal.asin))

\* the observations of one identity, in scrape order
ObservationsOf(obs, id) ==
    SelectSeq(obs, LAMBDA o : Present(o.deal.asin) /\ ObsIdentity(o) = id)

\* the positions in coll of the listings of one identity
ListingsOf(coll, id) == {i \in 1..Len(coll) : Identity(coll[i].deal) = id}

\* the listing of an identity that has exactly one
ListingOf(coll, id) == coll[CHOOSE i \in ListingsOf(coll, id) : TRUE].deal

NoDuplicates(s) == \A i, j \in 1..Len(s) : s[i] = s[j] => i = j

\* the value of field f that the last observation carrying one gives, NA
\* when no observation carries one
LastPresent(obs, f) ==
    LET carrying == {k \in 1..Len(obs) : Present(obs[k].deal[f])}
    IN  IF carrying = {} THEN NA
        ELSE obs[CHOOSE k \in carrying : \A m \in carrying : m <= k].deal[f]

\* collected when the observations obs are merged in their order
RECURSIVE Aggregate(_, _)
Aggregate(obs, coll) ==
    IF obs = <<>> THEN coll
    ELSE Aggregate(Tail(obs),
                   MergeDeal(coll, Head(obs).deal,
                             [marketplace_id |-> Head(obs).marketplace_id,
                              name |-> Head(obs).site,
                              base_url |-> Head(obs).base_url]))

Swapped(s, i, j) == [s EXCEPT ![i] = s[j], ![j] = s[i]]

\* the category sets of coll, by identity
CategorySets(coll) ==
    {<<Identity(coll[i].deal), Range(coll[i].deal.categories)>> : i \in 1..Len(coll)}

\* C1: at the end of scraping every identity observed in the cycle has one
\* aggregated listing, and its categories are the labels of the observations
\* of that identity: none missing, none extra, none twice.
C1_CategoriesAreUnion ==
    \A t \in Tasks :
        pc[t] = "scraped" =>
            \A k \in 1..Len(Identified(observed[t])) :
                LET id == ObsIdentity(Identified(observed[t])[k])
                    mine == ObservationsOf(observed[t], id)
                IN  /\ Cardinality(ListingsOf(collected[t], id)) = 1
                    /\ NoDuplicates(ListingOf(collected[t], id).categories)
                    /\ Range(ListingOf(collected[t], id).categories)
                           = {mine[m].deal.category : m \in 1..Len(mine)}

\* C1 witness: a cycle has ended its scraping with an item observed three
\* times or more, under two labels, next to an item of another identity.
C1_Witness ==
    \E t \in Tasks :
        /\ pc[t] = "scraped"
        /\ Len(collected[t]) >= 2
        /\ \E i \in 1..Len(collected[t]) :
               /\ Len(collected[t][i].deal.categories) = 2
               /\ Len(ObservationsOf(observed[t], Identity(collected[t][i].deal))) >= 3

\* C2: when an observation is merged, every field of every collected listing
\* whose stored value is present and whose observed value is absent keeps its
\* stored value (and no listing is dropped).
C2_AbsentNeverOverwrites ==
    [][\A t \in Tasks :
          (pc[t] = "merge" /\ pending[t] /= <<>>) =>
              /\ Len(collected'[t]) >= Len(collected[t])
              /\ \A i \in 1..Len(collected[t]) : \A f \in DealFields :
                     (/\ Present(collected[t][i].deal[f])
                      /\ ~Present(Head(pending[t])[f]))
                         => collected'[t][i].deal[f] = collected[t][i].deal[f]]_vars

\* C2 witness: the last observation of an item had no price and no title,
\* and its listing holds the price and the title of earlier observations.
C2_Witness ==
    \E t \in Tasks :
        /\ pc[t] = "merge"
        /\ Len(observed[t]) >= 2
        /\ LET last == observed[t][Len(observed[t])]
           IN  /\ Present(last.deal.asin)
               /\ ~Present(last.deal.current_price)
               /\ ~Present(last.deal.title)
               /\ Cardinality(ListingsOf(collected[t], ObsIdentity(last))) = 1
               /\ Present(ListingOf(collected[t], ObsIdentity(last)).current_price)
               /\ Present(ListingOf(collected[t], ObsIdentity(last)).title)

\* C3: at the end of scraping every field of every aggregated listing holds
\* the value of the last observation of that identity that carried one, and
\* an absent value when none did.  Merging the same observations with two
\* of them swapped gives the same category sets, and another value for each
\* field whose last two carried values are the swapped ones and differ.
C3_LastPresentWins ==
    \A t \in Tasks :
        pc[t] = "scraped" =>
            LET obs == Identified(observed[t])
            IN  /\ \A k \in 1..Len(obs) : \A f \in DealFields :
                       LET id == ObsIdentity(obs[k])
                           mine == ObservationsOf(obs, id)
                           value == ListingOf(collected[t], id)[f]
                       IN  IF \E m \in 1..Len(mine) : Present(mine[m].deal[f])
                           THEN value = LastPresent(mine, f)
                           ELSE ~Present(value)
                /\ \A i, j \in 1..Len(obs) :
                       i < j =>
                           LET other == Aggregate(Swapped(obs, i, j), <<>>)
                               id == ObsIdentity(obs[j])
                           IN  /\ CategorySets(other) = CategorySets(collected[t])
                               /\ \A f \in DealFields :
                                      (/\ ObsIdentity(obs[i]) = id
                                       /\ Present(obs[i].deal[f])
                                       /\ Present(obs[j].deal[f])
                                       /\ obs[i].deal[f] /= obs[j].deal[f]
                                       /\ \A m \in (j + 1)..Len(obs) :
                                              ObsIdentity(obs[m]) = id
                                                  => ~Present(obs[m].deal[f]))
                                          => ListingOf(other, id)[f]
                                                 /= ListingOf(collected[t], id)[f]

\* C3 witness: an item was observed with one price, then with another, then
\* without a price, and its listing holds the second price.
C3_Witness ==
    \E t \in Tasks :
        /\ pc[t] = "scraped"
        /\ \E i \in 1..Len(collected[t]) :
               LET mine == ObservationsOf(observed[t], Identity(collected[t][i].deal))
               IN  /\ Len(mine) >= 3
                   /\ Present(mine[1].deal.current_price)
                   /\ Present(mine[2].deal.current_price)
                   /\ mine[1].deal.current_price /= mine[2].deal.current_price
                   /\ ~Present(mine[Len(mine)].deal.current_price)
                   /\ collected[t][i].deal.current_price = mine[2].deal.current_price

\* ================================================ the reconciliation claims
\* the collection holds a document of the listing's identity
HasRecord(docs, deal) ==
    \E i \in 1..Len(docs) : Identity(docs[i]) = Identity(deal)

\* the listing trigger t is reconciling
Reconciled(t) == collected[t][cursor[t]].deal

\* trigger t's insert_one, and its update_one, returns in this step
Inserts(t) ==
    pc[t] = "write" /\ existing[t] = <<>> /\ outcome'[t].kind = "returned"
Updates(t) ==
    pc[t] = "write" /\ existing[t] /= <<>> /\ outcome'[t].kind = "returned"

C5_UnchangedStillAdvances ==
    [][\A t \in Tasks :
          (Updates(t) /\ \A i \in 1..Len(fields_to_watch) :
               existing[t][1][fields_to_watch[i]]
                   = Reconciled(t)[fields_to_watch[i]]) =>
              LET id == existing[t][1].id
              IN  /\ outcome'[t].change = <<>>
                  /\ notifications'[t] = notifications[t]
                  /\ store'[id].last_seen = document[t][1].last_seen
                  /\ store'[id].last_seen > store[id].last_seen]_vars

\* C6: when a listing whose lookup found a document is reconciled, an
\* "Updated deal" change is returned and queued exactly when a watched field
\* of the document found differs from the listing's; its diff holds exactly
\* the differing watched fields, each with the found and the listing's
\* value; and the written document has the listing's watched values.
C6_UpdatedIffWatchedDiffers ==
    [][\A t \in Tasks :
          Updates(t) =>
              LET deal == Reconciled(t)
                  found == existing[t][1]
                  differing == {f \in Range(fields_to_watch) : found[f] /= deal[f]}
                  change == outcome'[t].change
              IN  /\ ~outcome'[t].is_new
                  /\ (change /= <<>>) <=> (differing /= {})
                  /\ change /= <<>> =>
                         /\ change[1].change_type = "Updated deal"
                         /\ Len(change[1].changed_fields) = Cardinality(differing)
                         /\ Range(change[1].changed_fields)
                                = {[field |-> f, old_value |-> found[f],
                                    new_value |-> deal[f]] : f \in differing}
                         /\ notifications'[t]
                                = Append(notifications[t],
                                         [deal |-> deal, change |-> change[1]])
                  /\ change = <<>> => notifications'[t] = notifications[t]
                  /\ \A f \in Range(fields_to_watch) :
                         store'[found.id][f] = deal[f]]_vars

\* C6 witness: a document stored with the price 10.00 was reconciled with a
\* listing priced 8.00; the change says so and the document now holds 8.00.
C6_Witness ==
    \E t \in Tasks :
        /\ outcome[t].kind = "returned"
        /\ ~outcome[t].is_new
        /\ outcome[t].change
               = <<UpdatedDeal(<<[field |-> "current_price",
                                  old_value |-> "€10.00",
                                  new_value |-> "€8.00"]>>)>>
        /\ outcome[t].written[1].current_price = "€8.00"

\* C7: no write to the collection removes a category from a document.
C7_CategoriesNeverShrink ==
    [][\A i \in 1..Len(store) :
          Range(store[i].categories) \subseteq Range(store'[i].categories)]_vars

\* C8: when update_one returns, every field of the document that was
\* present before and is absent in the listing keeps the value it had.
C8_ReconcileKeepsPresent ==
    [][\A t \in Tasks :
          Updates(t) =>
              \A f \in DealFields :
                  (/\ Present(store[existing[t][1].id][f])
                   /\ ~Present(Reconciled(t)[f]))
                      => store'[existing[t][1].id][f]
                             = store[existing[t][1].id][f]]_vars

\* C9: no step changes the first_seen of a document, and an update sets
\* last_seen to the time its reconciliation read, a time after the last_seen
\* of the document found and not after the clock.
C9_FirstSeenImmutable ==
    [][/\ Len(store') >= Len(store)
       /\ \A i \in 1..Len(store) :
              /\ store'[i].id = store[i].id
              /\ store'[i].first_seen = store[i].first_seen
       /\ \A t \in Tasks :
              Updates(t) =>
                  LET id == existing[t][1].id
                  IN  /\ store'[id].last_seen = document[t][1].last_seen
                      /\ store'[id].last_seen > existing[t][1].last_seen
                      /\ store'[id].last_seen <= clock]_vars

\* C9 witness: a document created in this run was then updated: it has the
\* first_seen it was created with and a later last_seen.
C9_Witness ==
    \E t \in Tasks :
        /\ outcome[t].kind = "returned"
        /\ ~outcome[t].is_new
        /\ outcome[t].prior[1].first_seen > 0
        /\ outcome[t].written[1].first_seen = outcome[t].prior[1].first_seen
        /\ outcome[t].written[1].last_seen > outcome[t].written[1].first_seen

\* C10: the collection never holds two documents of one identity.
C10_OneRecordPerIdentity ==
    \A i, j \in 1..Len(store) :
        Identity(store[i]) = Identity(store[j]) => i = j

\* ====================================================== the scraper claim
\* the number of trailing attempts of ys that brought nothing
RECURSIVE TrailingEmpty(_)
TrailingEmpty(ys) ==
    IF ys = <<>> \/ ys[Len(ys)] /= 0 THEN 0
    ELSE 1 + TrailingEmpty(SubSeq(ys, 1, Len(ys) - 1))

\* C18: a scrape without a page limit has returned exactly when its last 3
\* attempts each brought no new product; while it loops, its counter is the
\* number of attempts since the last one that brought any, which is below 3.
C18_StopsAfterThreeEmpty ==
    max_pages = 0 =>
        /\ scrape_pc = "returned" <=> TrailingEmpty(yields) >= 3
        /\ TrailingEmpty(yields) <= 3
        /\ scrape_pc = "loop" =>
               /\ no_new_products_count = TrailingEmpty(yields)
               /\ no_new_products_count < 3

\* C18 witness: an unlimited scrape returned after an attempt that brought
\* products had followed one that brought none.
C18_Witness ==
    /\ max_pages = 0
    /\ scrape_pc = "returned"
    /\ \E i \in 1..(Len(yields) - 1) : yields[i] = 0 /\ yields[i + 1] > 0

\* ==================================================== the cycle's claims
\* trigger t's call of scrape_and_process is between its first await and
\* its return
InCycle(t) ==
    pc[t] \in {"scrape", "merge", "scraped", "find", "write", "notify",
               "backoff", "retry"}

\* C11: at no time are two triggers' cycles in progress together.
C11_OneCycleAtATime ==
    \A t1, t2 \in Tasks : (InCycle(t1) /\ InCycle(t2)) => t1 = t2

\* an invocation of the scraper raised
ScrapeFailed == \E f \in failures : f.kind = "scrape"

\* trigger t's call of scrape_and_process ends in this step, by returning
\* or by raising
Ends(t) ==
    /\ pc[t] \notin {"wait_ready", "idle", "dead"}
    /\ pc'[t] \in {"idle", "dead"}

\* the notifications of trigger t that no send was attempted for
Unsent(t) ==
    IF pc[t] \in {"notify", "backoff", "retry"}
    THEN Tail(notifications[t]) ELSE notifications[t]

\* C12: when an invocation of the scraper raises, the cycle goes on with the
\* next category or site and keeps what it has collected; at the end of the
\* scraping every observation with an item identifier has its listing in
\* collected; and a cycle in which an invocation raised ends only after
\* process_deal was called for every listing and a send was attempted for
\* every queued change.
C12_ScrapeFailureIsIsolated ==
    [][\A t \in Tasks :
          /\ (pc[t] = "scrape" /\ failures' /= failures) =>
                 LET a == After(config, site_idx[t], idx[t])
                 IN  /\ pc'[t] = a.pc /\ pc'[t] \in {"scrape", "scraped"}
                     /\ site_idx'[t] = a.site_idx /\ idx'[t] = a.idx
                     /\ collected'[t] = collected[t]
          /\ (pc[t] /= "scraped" /\ pc'[t] = "scraped") =>
                 \A i \in 1..Len(observed'[t]) :
                     Present(observed'[t][i].deal.asin) =>
                         ListingsOf(collected'[t], ObsIdentity(observed'[t][i])) /= {}
          /\ (ScrapeFailed /\ Ends(t)) =>
                 /\ collected[t] = <<>> \/ cursor[t] = Len(collected[t]) + 1
                 /\ Unsent(t) = <<>>]_vars

\* C13: when find_one, insert_one or update_one raises, scrape_and_process
\* goes on with the next listing, the collection and the queue being as they
\* were; the loop over the listings ends only when process_deal was called
\* for every one; and every call, in whatever iteration, starts from the
\* listing and the collection alone: the document found is what find_one
\* gives for the collection as it is, and a cycle starts with nothing kept
\* from the one before.
C13_StoreFailureIsIsolated ==
    [][\A t \in Tasks :
          /\ (pc[t] \in {"find", "write"} /\ failures' /= failures) =>
                 /\ pc'[t] = AfterDeal(t, notifications[t])
                 /\ pc'[t] \in {"find", "notify", "return"}
                 /\ cursor'[t] = cursor[t] + 1
                 /\ store' = store
                 /\ notifications'[t] = notifications[t]
          /\ (pc[t] \in {"find", "write"} /\ pc'[t] \notin {"find", "write"}) =>
                 cursor'[t] = Len(collected[t]) + 1
          /\ pc'[t] = "find" => cursor'[t] \in 1..Len(collected'[t])
          /\ (pc[t] = "find" /\ pc'[t] = "write") =>
                 /\ existing'[t] = find_one(store, Reconciled(t))
                 /\ document'[t]
                        = <<Document(existing'[t], Reconciled(t), clock')>>
          /\ pc[t] = "cycle" =>
                 /\ collected[t] = <<>> /\ notifications[t] = <<>>
                 /\ existing[t] = <<>> /\ document[t] = <<>>]_vars

\* C13 witness: in the second iteration a listing is inserted as new whose
\* reconciliation raised in the first, the collection holding the other
\* listing already.
C13_Witness ==
    LET t == "scrape_loop"
    IN  /\ iterations = 2
        /\ outcome[t].kind = "returned"
        /\ outcome[t].is_new
        /\ \E f \in failures :
               /\ f.kind = "reconcile"
               /\ f.iteration = 1
               /\ <<f.marketplace_id, f.site, f.item>>
                      = Identity(outcome[t].deal[1])
        /\ Len(store) = 2
        /\ Identity(store[1]) /= Identity(store[2])
        /\ store[1].first_seen < store[2].first_seen

\* trigger t is in the loop of lines 327-328
Notifying(t) == pc[t] \in {"notify", "backoff", "retry"}

\* C14: no step of the loop over the notifications ends the trigger's call
\* other than by its return, and the loop is left only after a send was
\* attempted for the last queued pair.
C14_SendFailureIsIsolated ==
    [][\A t \in Tasks :
          Notifying(t) =>
              /\ pc'[t] \in {"notify", "backoff", "retry", "return"}
              /\ pc'[t] = "return" => Len(notifications[t]) = 1
              /\ notifications'[t] \in {notifications[t], Tail(notifications[t])}]_vars

\* C15: a notification's first send is followed by a second one exactly
\* when it failed with the rate-limit status: the delay starts only at a
\* first send, the second send is issued only after the delay, and what
\* follows the second send is the next notification, the return, or the
\* exception of its failure, never a further delay or send.
C15_AtMostTwoSends ==
    [][\A t \in Tasks :
          /\ (pc[t] \in {"backoff", "retry"}) <=> (sends[t] = <<"rate_limited">>)
          /\ Len(sends[t]) <= 1
          /\ (pc'[t] = "backoff" /\ pc[t] /= "backoff") =>
                 /\ pc[t] = "notify"
                 /\ notifications'[t] = notifications[t]
          /\ (pc'[t] = "retry" /\ pc[t] /= "retry") =>
                 /\ pc[t] = "backoff"
                 /\ notifications'[t] = notifications[t]
          /\ (pc[t] = "retry" /\ pc'[t] /= "retry") =>
                 /\ pc'[t] \in {"notify", "return", "dead"}
                 /\ pc'[t] = "notify" =>
                        /\ notifications'[t] = Tail(notifications[t])
                        /\ sends'[t] = <<>>
          /\ (pc[t] = "notify" /\ pc'[t] = "notify"
                  /\ notifications'[t] /= notifications[t]) =>
                 /\ notifications'[t] = Tail(notifications[t])
                 /\ sends'[t] = <<>>]_vars

\* C15 witness: the first send of a notification was rate limited, the
\* delay has passed and the second send is being made, a further
\* notification waiting behind it.
C15_Witness ==
    \E t \in Tasks :
        /\ pc[t] = "retry"
        /\ sends[t] = <<"rate_limited">>
        /\ Len(notifications[t]) = 2

\* the phase of the cycle a position belongs to: 1 scraping and merging,
\* 2 reconciling, 3 notifying, 4 returning, 0 outside a cycle
Phase(p) ==
    IF p \in {"scrape", "merge", "scraped"} THEN 1
    ELSE IF p \in {"find", "write"} THEN 2
    ELSE IF p \in {"notify", "backoff", "retry"} THEN 3
    ELSE IF p = "return" THEN 4
    ELSE 0

\* C16: a cycle never goes back to an earlier phase; it looks up or writes
\* documents only when every scraper invocation is over and merged, and
\* sends only when process_deal was called for every listing; and it ends
\* by returning, after which the trigger is idle.
C16_PhasesInOrder ==
    [][\A t \in Tasks :
          /\ Phase(pc[t]) = 2 =>
                 /\ site_idx[t] > Len(config)
                 /\ pending[t] = <<>>
          /\ Phase(pc[t]) = 3 => cursor[t] = Len(collected[t]) + 1
          /\ (Phase(pc[t]) > 0 /\ Phase(pc'[t]) > 0) =>
                 Phase(pc'[t]) >= Phase(pc[t])
          /\ (Phase(pc[t]) = 0 /\ Phase(pc'[t]) > 0) =>
                 pc[t] = "cycle" /\ Phase(pc'[t]) \in {1, 4}
          /\ (Phase(pc[t]) > 0 /\ Phase(pc'[t]) = 0) =>
                 pc[t] = "return" /\ pc'[t] = "idle"]_vars

\* C17: whenever a scraper invocation ends, by returning or by raising, what
\* follows is the merge of its deals and the delay of line 288: the next
\* invocation, or the end of the scraping, comes only after that delay.
C17_DelayAfterEveryScrape ==
    [][\A t \in Tasks :
          /\ (pc[t] = "scrape"
                 /\ <<pc'[t], site_idx'[t], idx'[t]>>
                        /= <<pc[t], site_idx[t], idx[t]>>) =>
                 pc'[t] = "merge"
          /\ (pc'[t] \in {"scrape", "scraped"}
                 /\ <<pc'[t], site_idx'[t], idx'[t]>>
                        /= <<pc[t], site_idx[t], idx[t]>>) =>
                 pc[t] \in {"cycle", "merge"}]_vars

\* C20: every listing of collected, every document of the collection and
\* every queued change has an item identifier that is there and is not
\* "N/A".
C20_NoAbsentIdentifier ==
    /\ \A i \in 1..Len(store) : Present(store[i].asin)
    /\ \A t \in Tasks :
           /\ \A i \in 1..Len(collected[t]) : Present(collected[t][i].deal.asin)
           /\ \A i \in 1..Len(notifications[t]) :
                  Present(notifications[t][i].deal.asin)
           /\ \A i \in 1..Len(document[t]) : Present(document[t][i].asin)

\* C20 witness: a promotion without the asin key and one with an empty asin
\* were scraped and merged, and collected holds the one listing that was
\* scraped with an identifier.
C20_Witness ==
    \E t \in Tasks :
        /\ pc[t] = "merge"
        /\ pending[t] = <<>>
        /\ \E i \in 1..Len(observed[t]) : observed[t][i].deal.asin = NA
        /\ \E i \in 1..Len(observed[t]) : observed[t][i].deal.asin = ""
        /\ Len(collected[t]) = 1
        /\ Len(observed[t]) = 3

\* the identity keys of the observations of obs that carry an item
\* identifier
IdentitiesOf(obs) ==
    {ObsIdentity(obs[i]) : i \in {j \in 1..Len(obs) : Present(obs[j].deal.asin)}}

\* C19: the observations merged so far have given one listing per identity
\* key, each listing holding the categories of the observations of its own
\* key only; and the document a lookup returns has the marketplace, the site
\* and the item identifier of the listing it was made for.
C19_KeyedOnAllThree ==
    [][\A t \in Tasks :
          /\ Phase(pc'[t]) = 1 =>
                 Len(collected'[t]) = Cardinality(IdentitiesOf(observed'[t]))
          /\ (pc[t] = "find" /\ pc'[t] = "write" /\ existing'[t] /= <<>>) =>
                 Identity(existing'[t][1]) = Identity(Reconciled(t))]_vars

\* ====================================================== the startup claim
\* the locals of trigger t's call of scrape_and_process
LocalsOf(t) ==
    <<site_idx[t], idx[t], pending[t], collected[t], observed[t], cursor[t],
      existing[t], document[t], changed[t], outcome[t], new_deal_counts[t],
      notifications[t], sends[t]>>

\* C21: a trigger leaves its wait either with the channel resolved, for its
\* first cycle or iteration, or by ending, nothing else having changed; a
\* trigger that is in or between cycles has the channel resolved; and a
\* trigger that has ended takes no further step.
C21_NoWorkWithoutChannel ==
    [][\A t \in Tasks :
          /\ (pc[t] = "wait_ready" /\ pc'[t] /= "wait_ready") =>
                 \/ /\ deals_channel'
                    /\ pc'[t] = IF t = "scrape_loop" THEN "idle" ELSE "cycle"
                 \/ /\ pc'[t] = "dead"
                    /\ ~deals_channel'
                    /\ UNCHANGED <<shared, locals>>
          /\ pc'[t] \notin {"wait_ready", "dead"} => deals_channel'
          /\ pc[t] = "dead" =>
                 /\ pc'[t] = "dead"
                 /\ LocalsOf(t)' = LocalsOf(t)]_vars

\* C21 witness: the startup trigger has ended before any lookup was made,
\* so at its channel resolution, and the hourly trigger, which resolved the
\* channel afterwards, is reconciling.
C21_Witness ==
    /\ pc["initial_sync"] = "dead"
    /\ clock = 0
    /\ deals_channel
    /\ pc["scrape_loop"] = "find"

\* ============================================= the later reconciliation claims
\* C22: when update_one returns, the categories of the document are those
\* it held before the write together with the listing's, each once, and
\* every field of the listing has the listing's value in the document.
C22_UpdateIsUnionAndOverwrite ==
    [][\A t \in Tasks :
          Updates(t) =>
              LET id == existing[t][1].id
                  deal == Reconciled(t)
              IN  /\ Range(store'[id].categories)
                         = Range(store[id].categories) \cup Range(deal.categories)
                  /\ NoDuplicates(store'[id].categories)
                  /\ \A f \in DealFields : store'[id][f] = deal[f]]_vars

\* trigger t's cycle has aggregated a listing of the identity of doc
Aggregated(t, doc) ==
    \E k \in 1..Len(collected[t]) : Identity(collected[t][k].deal) = Identity(doc)

FailedNow == {f \in failures : f.kind = "reconcile" /\ f.iteration = iterations}

\* new_deal_counts, summed over the sites
RECURSIVE TotalCount(_)
TotalCount(counts) ==
    IF counts = <<>> THEN 0 ELSE Head(counts).count + TotalCount(Tail(counts))

\* C24: the step in which find_one, insert_one or update_one raises leaves
\* the collection, the queue of changes and the counts of new deals as they
\* were; the queue never holds a change for a listing whose reconciliation
\* raised in the cycle; and the queued changes and the counted deals are no
\* more than the listings whose reconciliation returned.
C24_FailedReconciliationLeavesNoTrace ==
    [][\A t \in Tasks :
          /\ (pc[t] \in {"find", "write"} /\ failures' /= failures) =>
                 /\ store' = store
                 /\ notifications'[t] = notifications[t]
                 /\ new_deal_counts'[t] = new_deal_counts[t]
                 /\ outcome'[t].kind = "raised"
                 /\ ~outcome'[t].is_new /\ outcome'[t].change = <<>>
          /\ \A f \in FailedNow' : \A i \in 1..Len(notifications'[t]) :
                 Identity(notifications'[t][i].deal)
                     /= <<f.marketplace_id, f.site, f.item>>
          /\ Phase(pc'[t]) = 2 =>
                 /\ Len(notifications'[t]) + Cardinality(FailedNow') <= cursor'[t] - 1
                 /\ TotalCount(new_deal_counts'[t]) + Cardinality(FailedNow')
                        <= cursor'[t] - 1]_vars

\* C24 witness: the update of the document an earlier run left raised and
\* the document is as it was; the other listing was inserted, and its change
\* is the only one queued and counted.
C24_Witness ==
    \E t \in Tasks :
        /\ pc[t] = "notify"
        /\ \E f \in FailedNow : f.item = "B01"
        /\ store[1] = Earlier[1]
        /\ Len(store) = 2
        /\ Len(notifications[t]) = 1
        /\ notifications[t][1].deal.asin = "B02"
        /\ TotalCount(new_deal_counts[t]) = 1

\* C25: a reconciliation that returns while the collection holds a document
\* of the listing's identity returns no "New deal" change and does not
\* count the deal as new, so that a "New deal" change is returned only for
\* an identity without a document, which it then has for good.
C25_NewAtMostOnce ==
    [][\A t \in Tasks :
          (/\ pc[t] = "write"
           /\ outcome'[t].kind = "returned"
           /\ HasRecord(store, Reconciled(t))) =>
              /\ ~outcome'[t].is_new
              /\ outcome'[t].change /= <<NewDeal>>
              /\ notifications'[t]
                     /= Append(notifications[t],
                               [deal |-> Reconciled(t), change |-> NewDeal])]_vars

\* ================================================ the scraper's termination
\* C26: on a source that brings new products on finitely many attempts the
\* loop of a scraper invocation is eventually left, and an invocation with a
\* page limit never makes more attempts than the limit, whatever they bring.
C26_ScrapeTerminates ==
    /\ <>(scrape_pc /= "loop")
    /\ [](max_pages /= 0 =>
             /\ Len(yields) <= max_pages
             /\ scrape_pc = "loop" => Len(yields) < max_pages)

\* C26 witness: an invocation without a page limit has returned, after
\* attempts that brought products up to the source's exhaustion and three
\* that brought none.
C26_Witness ==
    /\ max_pages = 0
    /\ scrape_pc = "returned"
    /\ Len(yields) = MaxAttempts
    /\ \A i \in 1..(MaxAttempts - max_no_new_attempts) : yields[i] > 0
    /\ TrailingEmpty(yields) = max_no_new_attempts

====
